---- MODULE Spec2Model ----
(***************************************************************************)
(* Model of deploy_with_testflinger.py: TestflingerSubmitter submits jobs, *)
(* monitors each one in a pool thread (monitor_subjob) with a daemon       *)
(* watcher thread (check_cancellation), counts successes in                *)
(* monitor_subjobs, cancels the rest through safe_cancel_job and verifies  *)
(* the results in run.                                                     *)
(*                                                                         *)
(* The model starts after submit_jobs has returned the job ids.  The       *)
(* external testflinger-cli commands (status, cancel, poll) answer         *)
(* nondeterministically: any exit status and any of the marker texts the   *)
(* code looks for.                                                         *)
(***************************************************************************)
EXTENDS Integers, Sequences, FiniteSets, TLC

\* The number of jobs submit_jobs returns in Spec; SpecMonitoring has one more.
NumJobs == 2

\* The job identifiers the service can hand out
Jobs == 1..(NumJobs + 1)

JobIds(n) == [i \in 1..n |-> i]

\* The largest number of entries in the inventory the agents API returns
MaxAgents == 3

(***************************************************************************)
(* Threads: the main thread (run), one pool thread per job                 *)
(* (monitor_subjob) and one daemon watcher per job (check_cancellation).   *)
(***************************************************************************)
Main == <<"main", 0>>

Mon(j) == <<"monitor", j>>

Watch(j) == <<"watcher", j>>

Threads == {Main} \cup {Mon(j) : j \in Jobs} \cup {Watch(j) : j \in Jobs}

NoThread == <<"none", 0>>

(***************************************************************************)
(* Text.  A string is a sequence of atoms; the atoms " " and "@" are the   *)
(* separators the code splits on.  The empty string is <<>>.               *)
(***************************************************************************)
EmptyStr == <<>>

IsSpace(a) == a = " "

RECURSIVE LStrip(_)
LStrip(s) == IF s # <<>> /\ IsSpace(Head(s)) THEN LStrip(Tail(s)) ELSE s

RECURSIVE RStrip(_)
RStrip(s) ==
    IF s # <<>> /\ IsSpace(s[Len(s)]) THEN RStrip(SubSeq(s, 1, Len(s) - 1)) ELSE s

Strip(s) == RStrip(LStrip(s))

\* Python: phrase in s
Contains(s, phrase) ==
    \E i \in 1..(Len(s) - Len(phrase) + 1) : SubSeq(s, i, i + Len(phrase) - 1) = phrase

\* Python: s.split(sep), a sequence of strings: the pieces between
\* consecutive occurrences of sep (one more piece than occurrences)
Split(s, sep) ==
    LET seps == {i \in 1..Len(s) : s[i] = sep}
        n == Cardinality(seps)
        pos(k) == CHOOSE i \in seps : Cardinality({m \in seps : m < i}) = k - 1
        first(k) == IF k = 1 THEN 1 ELSE pos(k - 1) + 1
        last(k) == IF k = n + 1 THEN Len(s) ELSE pos(k) - 1
    IN [k \in 1..(n + 1) |-> SubSeq(s, first(k), last(k))]

PhaseMarker ==
    <<"Starting", " ", "testflinger", " ", "provision", " ", "phase", " ", "on">>

ConnectMarker == <<"You", " ", "can", " ", "now", " ", "connect", " ", "to", " ", "ubuntu", "@">>

\* ret_val["name"] = output.split(" ")[-2], unchanged on IndexError
ParseAgentName(output, old) ==
    LET parts == Split(output, " ")
    IN IF Len(parts) >= 2 THEN parts[Len(parts) - 1] ELSE old

\* ret_val["ip"] = output.split("@")[-1]
ParseIp(output) ==
    LET parts == Split(output, "@")
    IN parts[Len(parts)]

AgentName(j) == <<"agent" \o ToString(j)>>

Address(j) == <<"10.0.0." \o ToString(j)>>

\* The lines testflinger-cli poll prints for job j, as long as it runs.
PhaseLine(j) == <<"*", " ">> \o PhaseMarker \o <<" ">> \o AgentName(j) \o <<" ", "*", " ">>

ConnectLine(j) == ConnectMarker \o Address(j) \o <<" ">>

PollOutput(j) == <<PhaseLine(j), ConnectLine(j)>>

(***************************************************************************)
(* External commands.  An outcome is what subprocess.check_output does:    *)
(* returns (exit "ok"), raises CalledProcessError (exit "failed") or       *)
(* raises TimeoutExpired (exit "timeout").  The text of an outcome is the  *)
(* set of marker phrases it contains.                                      *)
(***************************************************************************)
AlreadyMsg == "Invalid job ID specified or the job is already completed/cancelled"

StatusOutcomes ==
    {[exit |-> "ok", text |-> t] : t \in {{"reserve"}, {"provision"}, {"completed"}, {"cancelled"}}}
        \cup {[exit |-> "failed", text |-> {}], [exit |-> "timeout", text |-> {}]}

CancelOutcomes ==
    {[exit |-> "ok", text |-> {}], [exit |-> "failed", text |-> {AlreadyMsg}],
     [exit |-> "failed", text |-> {}], [exit |-> "timeout", text |-> {}]}

\* call_testflinger: the output, or the exception raised
CallTestflinger(command, outcome) ==
    IF outcome.exit = "ok"
    THEN [raised |-> "none", output |-> outcome.text]
    ELSE IF outcome.exit = "failed"
         THEN IF command = "cancel" /\ AlreadyMsg \in outcome.text
              THEN [raised |-> "JobAlreadyCancelledError", output |-> {}]
              ELSE [raised |-> "TestflingerError", output |-> {}]
         ELSE [raised |-> "TestflingerError", output |-> {}]

\* JobAlreadyCancelledError is a TestflingerError
IsTestflingerError(r) == r.raised \in {"TestflingerError", "JobAlreadyCancelledError"}

\* the status command for job_id raises TestflingerError
StatusFailure(job_id, outcome) ==
    IF IsTestflingerError(CallTestflinger("status", outcome)) THEN {job_id} ELSE {}

\* how a cancel command ended for its caller
CancelResult(r) ==
    IF r.raised = "none" THEN "ok"
    ELSE IF r.raised = "JobAlreadyCancelledError" THEN "already" ELSE "failed"

\* is_job_running answering False whatever the status
IsJobRunningNever(outcome) == FALSE

\* is_job_running on the outcome of its status command
IsJobRunning(outcome) ==
    LET r == CallTestflinger("status", outcome)
    IN IF IsTestflingerError(r)
       THEN FALSE
       ELSE IF "completed" \in r.output \/ "cancelled" \in r.output THEN FALSE ELSE TRUE

(***************************************************************************)
(* Agent selection.  An inventory entry is a record of the agents API:     *)
(* name, state, queues and the optional provision streak (has_streak says  *)
(* whether provision_streak_count is present; type "none" is an absent     *)
(* provision_streak_type).                                                 *)
(***************************************************************************)
ServerSets == {{"s1"}, {"s1", "s2"}}

StreakKinds ==
    {[has_streak |-> FALSE, count |-> 0, type |-> "none"],
     [has_streak |-> TRUE, count |-> 1, type |-> "pass"],
     [has_streak |-> TRUE, count |-> 2, type |-> "pass"],
     [has_streak |-> TRUE, count |-> 1, type |-> "fail"],
     [has_streak |-> TRUE, count |-> 2, type |-> "none"]}

\* the entries the API may list, apart from their names
EntryKinds ==
    {[state |-> "waiting", queues |-> {"s1"}, streak |-> k] : k \in StreakKinds}
        \cup {[state |-> "waiting", queues |-> {"s2"},
               streak |-> [has_streak |-> TRUE, count |-> 1, type |-> "pass"]],
              [state |-> "busy", queues |-> {"s1"},
               streak |-> [has_streak |-> TRUE, count |-> 2, type |-> "pass"]]}

\* json.loads(response.read().decode()): the i-th entry is agent i
Inventories ==
    UNION {{[i \in 1..n |-> [name |-> i, state |-> f[i].state, queues |-> f[i].queues,
                             has_streak |-> f[i].streak.has_streak,
                             count |-> f[i].streak.count, type |-> f[i].streak.type]] :
               f \in [1..n -> EntryKinds]} : n \in 0..MaxAgents}

\* what the request for AGENT_DATA_URL does: "ok" (status 200 and a JSON
\* list), "urlerror" (URLError), "status" (another status code) or "badjson"
\* (JSONDecodeError)
FetchOutcomes ==
    {[status |-> "ok", data |-> d] : d \in Inventories}
        \cup {[status |-> st, data |-> <<>>] : st \in {"urlerror", "status", "badjson"}}

\* get_agent_data: the data, or TestflingerError
GetAgentData(fetch) ==
    IF fetch.status = "ok"
    THEN [raised |-> "none", data |-> fetch.data]
    ELSE [raised |-> "TestflingerError", data |-> <<>>]

\* any(server in entry.get("queues", []) for server in servers)
MatchesServers(entry, servers) == \E server \in servers : server \in entry.queues

\* streak = entry["provision_streak_count"], negated if the type is "fail";
\* except KeyError: streak = 0
Streak(entry) ==
    IF ~entry.has_streak THEN 0
    ELSE IF entry.type = "fail" THEN 0 - entry.count ELSE entry.count

\* if state == "waiting":
IsAvailable(entry) == entry.state = "waiting"

\* for entry in data: ... agents.append({"name": name, "streak": streak})
RECURSIVE CollectAgents(_, _)
CollectAgents(data, servers) ==
    IF data = <<>> THEN <<>>
    ELSE LET entry == Head(data)
             rest == CollectAgents(Tail(data), servers)
         IN IF MatchesServers(entry, servers) /\ IsAvailable(entry)
            THEN <<[name |-> entry.name, streak |-> Streak(entry)]>> \o rest
            ELSE rest

\* sorted(..., reverse=True) puts agent after the agents with a streak at
\* least as high (the sort is stable)
RECURSIVE InsertByStreak(_, _)
InsertByStreak(agent, sorted) ==
    IF sorted = <<>> THEN <<agent>>
    ELSE IF Head(sorted).streak >= agent.streak
         THEN <<Head(sorted)>> \o InsertByStreak(agent, Tail(sorted))
         ELSE <<agent>> \o sorted

\* sorted(agents, key=lambda x: x["streak"], reverse=True)
RECURSIVE SortedByStreak(_)
SortedByStreak(list) ==
    IF list = <<>> THEN <<>>
    ELSE InsertByStreak(list[Len(list)], SortedByStreak(SubSeq(list, 1, Len(list) - 1)))

\* if agent["streak"] > 0
IsPositiveStreak(agent) == agent.streak > 0

\* get_available_agents dropping the agents without a streak
IsNegativeStreakOnly(agent) == agent.streak < 0

\* if agent["streak"] <= 0
IsNegativeStreak(agent) == agent.streak <= 0

\* random.shuffle(list): every order of the list
Shuffles(list) ==
    {[i \in 1..Len(list) |-> list[p[i]]] :
        p \in {q \in [1..Len(list) -> 1..Len(list)] :
                  \A a, b \in 1..Len(list) : q[a] = q[b] => a = b}}

AgentNames(list) == [i \in 1..Len(list) |-> list[i].name]

\* get_available_agents: the lists it may return
GetAvailableAgents(fetch, servers) ==
    LET r == GetAgentData(fetch)
    IN IF r.raised = "TestflingerError"
       THEN {<<>>}
       ELSE LET agents_sorted_by_streak == SortedByStreak(CollectAgents(r.data, servers))
                agents_with_positive_streaks ==
                    SelectSeq(agents_sorted_by_streak, IsPositiveStreak)
                agents_with_negative_streaks ==
                    SelectSeq(agents_sorted_by_streak, IsNegativeStreak)
            IN {AgentNames(shuffled \o agents_with_negative_streaks) :
                   shuffled \in Shuffles(agents_with_positive_streaks)}

\* list[:limit] for limit >= 0
Slice(list, limit) == SubSeq(list, 1, IF limit < Len(list) THEN limit ELSE Len(list))

\* what the submit command does
SubmitOutcomes == {"ok", "failed", "timeout"}

\* what generate_yaml_files does for one agent: it writes the file, fails
\* before opening it (TemplateError, OSError) or fails in render after
\* opening it
GenerateOutcomes == {"ok", "template", "render"}

\* the inventory of n waiting agents of the target servers
WaitingInventory(n) ==
    [i \in 1..n |-> [name |-> i, state |-> "waiting", queues |-> {"s1"},
                     has_streak |-> FALSE, count |-> 0, type |-> "none"]]

(***************************************************************************)
(* State                                                                   *)
(***************************************************************************)
VARIABLES
    job_ids,              \* self.job_ids
    completion_threshold, \* self.completion_threshold
    cancelled_jobs,       \* self.cancelled_jobs
    job_state_lock,       \* self.job_state_lock: the thread holding it, or NoThread
    scpc,                 \* per thread: position inside safe_cancel_job
    scjob,                \* per thread: the job_id argument of safe_cancel_job
    sc_running,           \* per thread in safe_cancel_job: what is_job_running returned
    token,                \* cancellation_tokens[j].should_cancel
    process,              \* the testflinger-cli poll process of monitor j
    nprod,                \* lines the poll process has written to its pipe
    nread,                \* lines monitor j has read from the pipe
    mpc,                  \* monitor_subjob(j): position
    wpc,                  \* check_cancellation of monitor j: position
    ret_val,              \* monitor_subjob(j): ret_val
    sink,                 \* the lines written to testflinger-<j>.txt
    result_queue,         \* self.result_queue
    rpc,                  \* run / monitor_subjobs: position
    completed_count,      \* monitor_subjobs: completed_count
    completed_futures,    \* monitor_subjobs: the futures as_completed has yielded
    idx,                  \* run / verify_results: position in the for loop
    results,              \* run: results
    valid_results,        \* verify_results: valid_results
    exit_code,            \* what run returns; -1 before it returns
    trigger,              \* the subjob whose completion reached the threshold; 0 if none
    true_returns,         \* history: safe_cancel_job calls on j that returned True
    cancel_calls,         \* history: token.cancel() calls on the token of j
    sc_calls,             \* history: <<site, j>> of every safe_cancel_job call
    verify_status,        \* history: what verify_results' status query said of job j
    exit_path,            \* history: how monitor_subjob(j) left its try block
    agent_limit,          \* self.agent_limit
    servers_file,         \* the server names in self.server_file
    inventory,            \* what urlopen(AGENT_DATA_URL) answers
    agents,               \* run: agents
    yaml_files,           \* OUTPUT_DIR: the agents a testflinger-<agent>.yaml exists for
    pending,              \* submit_jobs: the files its for loop still has to submit
    generated,            \* history: the agents generate_yaml_files wrote a file for
    submit_calls,         \* history: the number of submit commands issued
    last_cancel,          \* history: how the last cancel command for job j ended
    status_failed,        \* history: the jobs a status command has raised TestflingerError for
    service               \* the state of job j at the testflinger service

\* the state of run before monitor_subjobs
startVars ==
    <<agent_limit, servers_file, inventory, agents, yaml_files, pending, generated,
      submit_calls>>

vars ==
    <<startVars, job_ids, completion_threshold, cancelled_jobs, job_state_lock, scpc, scjob, sc_running, token,
      process, nprod, nread, mpc, wpc, ret_val, sink, result_queue, rpc,
      completed_count, completed_futures, idx, results, valid_results, exit_code,
      trigger, true_returns, cancel_calls, sc_calls, verify_status, exit_path,
      last_cancel, status_failed, service>>

cfgVars == <<startVars, job_ids, completion_threshold, service>>

lockVars == <<cancelled_jobs, job_state_lock>>

\* what entering safe_cancel_job changes
callVars == <<scpc, scjob, sc_calls>>

\* the rest of the state of the safe_cancel_job calls
scVars == <<sc_running, true_returns, last_cancel, status_failed>>

\* the poll process and its pipe
procVars == <<process, nprod>>

\* the locals of monitor_subjob and its watcher
monVars == <<nread, mpc, wpc, ret_val, sink, exit_path>>

\* the locals of monitor_subjobs
orchVars == <<rpc, completed_count, completed_futures, trigger, cancel_calls>>

\* the locals of run and verify_results
runVars == <<idx, results, valid_results, exit_code, verify_status>>

\* cancellation_tokens.keys(): the jobs monitor_subjobs is given
SubJobs == {job_ids[i] : i \in DOMAIN job_ids}

\* The state when run calls monitor_subjobs on n submitted jobs
InitWith(n) ==
    /\ agent_limit = n
    /\ servers_file = {"s1"}
    /\ inventory = [status |-> "ok", data |-> WaitingInventory(n)]
    /\ agents = JobIds(n)
    /\ yaml_files = 1..n
    /\ pending = {}
    /\ generated = 1..n
    /\ submit_calls = n
    /\ job_ids = JobIds(n)
    /\ completion_threshold \in 1..n
    /\ cancelled_jobs = {}
    /\ job_state_lock = NoThread
    /\ scpc = [t \in Threads |-> "out"]
    /\ scjob = [t \in Threads |-> 0]
    /\ sc_running = [t \in Threads |-> FALSE]
    /\ token = [j \in Jobs |-> FALSE]
    /\ process = [j \in Jobs |-> "none"]
    /\ nprod = [j \in Jobs |-> 0]
    /\ nread = [j \in Jobs |-> 0]
    /\ mpc = [j \in Jobs |-> IF j \in 1..n THEN "start" ELSE "unsubmitted"]
    /\ wpc = [j \in Jobs |-> "idle"]
    /\ ret_val = [j \in Jobs |-> [ip |-> EmptyStr, job_id |-> j, name |-> EmptyStr]]
    /\ sink = [j \in Jobs |-> <<>>]
    /\ result_queue = <<>>
    /\ rpc = "as_completed"
    /\ completed_count = 0
    /\ completed_futures = {}
    /\ idx = 0
    /\ results = <<>>
    /\ valid_results = <<>>
    /\ exit_code = -1
    /\ trigger = 0
    /\ true_returns = [j \in Jobs |-> 0]
    /\ cancel_calls = [j \in Jobs |-> 0]
    /\ sc_calls = {}
    /\ verify_status = [j \in Jobs |-> "none"]
    /\ exit_path = [j \in Jobs |-> "none"]
    /\ last_cancel = [j \in Jobs |-> "none"]
    /\ status_failed = {}

\* The commands answer whatever the state of the jobs at the service is
Unobserved == [j \in Jobs |-> "unobserved"]

Init ==
    /\ InitWith(NumJobs)
    /\ service = Unobserved

(***************************************************************************)
(* run before monitor_subjobs: the main thread                             *)
(***************************************************************************)
\* what run before monitor_subjobs leaves alone
laterVars ==
    <<completion_threshold, lockVars, callVars, scVars, token, procVars, nread, wpc,
      ret_val, sink, exit_path, result_queue, completed_count, completed_futures,
      trigger, cancel_calls, idx, results, valid_results, verify_status, service>>

\* The state when run is called
InitStart ==
    /\ agent_limit \in 0..MaxAgents
    /\ servers_file \in ServerSets
    /\ inventory \in FetchOutcomes
    /\ agents = <<>>
    /\ yaml_files \in SUBSET {1}
    /\ pending = {}
    /\ generated = {}
    /\ submit_calls = 0
    /\ job_ids = <<>>
    /\ completion_threshold = 1
    /\ cancelled_jobs = {}
    /\ job_state_lock = NoThread
    /\ scpc = [t \in Threads |-> "out"]
    /\ scjob = [t \in Threads |-> 0]
    /\ sc_running = [t \in Threads |-> FALSE]
    /\ token = [j \in Jobs |-> FALSE]
    /\ process = [j \in Jobs |-> "none"]
    /\ nprod = [j \in Jobs |-> 0]
    /\ nread = [j \in Jobs |-> 0]
    /\ mpc = [j \in Jobs |-> "unsubmitted"]
    /\ wpc = [j \in Jobs |-> "idle"]
    /\ ret_val = [j \in Jobs |-> [ip |-> EmptyStr, job_id |-> j, name |-> EmptyStr]]
    /\ sink = [j \in Jobs |-> <<>>]
    /\ result_queue = <<>>
    /\ rpc = "start"
    /\ completed_count = 0
    /\ completed_futures = {}
    /\ idx = 0
    /\ results = <<>>
    /\ valid_results = <<>>
    /\ exit_code = -1
    /\ trigger = 0
    /\ true_returns = [j \in Jobs |-> 0]
    /\ cancel_calls = [j \in Jobs |-> 0]
    /\ sc_calls = {}
    /\ verify_status = [j \in Jobs |-> "none"]
    /\ exit_path = [j \in Jobs |-> "none"]
    /\ last_cancel = [j \in Jobs |-> "none"]
    /\ status_failed = {}
    /\ service = Unobserved

\* return 1
RunFails ==
    /\ rpc' = "returned"
    /\ exit_code' = 1

\* servers = self.read_servers_file(): the names, or TestflingerError, which
\* run catches
ReadServers ==
    /\ rpc = "start"
    /\ \/ /\ rpc' = "select"
          /\ UNCHANGED exit_code
       \/ RunFails
    /\ UNCHANGED <<startVars, job_ids, mpc, laterVars>>

\* self.get_available_agents(servers)
SelectAgents ==
    /\ rpc = "select"
    /\ agents' \in GetAvailableAgents(inventory, servers_file)
    /\ rpc' = "agents"
    /\ UNCHANGED <<agent_limit, servers_file, inventory, yaml_files, pending, generated,
                   submit_calls, job_ids, mpc, exit_code, laterVars>>

\* if len(agents) < self.agent_limit:
TooFewAgents(list, limit) == Len(list) < limit

\* agents = ...[: self.agent_limit]; if len(agents) < self.agent_limit: return 1
CheckAgents ==
    /\ rpc = "agents"
    /\ agents' = Slice(agents, agent_limit)
    /\ IF TooFewAgents(agents', agent_limit)
       THEN RunFails
       ELSE /\ rpc' = "prepare"
            /\ UNCHANGED exit_code
    /\ UNCHANGED <<agent_limit, servers_file, inventory, yaml_files, pending, generated,
                   submit_calls, job_ids, mpc, laterVars>>

\* self.delete_yaml_files(): os.remove may fail on any file, which is then
\* kept; self.generate_yaml_files(agents); submit_jobs then lists the files
PrepareFiles ==
    /\ rpc = "prepare"
    /\ \E kept \in SUBSET yaml_files :
       \E outcome \in [{agents[i] : i \in DOMAIN agents} -> GenerateOutcomes] :
           /\ generated' = {a \in DOMAIN outcome : outcome[a] = "ok"}
           /\ yaml_files' = kept \cup {a \in DOMAIN outcome : outcome[a] # "template"}
    /\ pending' = yaml_files'
    /\ rpc' = "submit"
    /\ UNCHANGED <<agent_limit, servers_file, inventory, agents, submit_calls, job_ids,
                   mpc, exit_code, laterVars>>

\* one iteration of: for file in self.get_yaml_files():
\*     output = self.call_testflinger(["submit", file]); job_ids.append(job_id)
\* The service numbers the jobs it accepts.
SubmitJob ==
    /\ rpc = "submit"
    /\ \E file \in pending, outcome \in SubmitOutcomes :
           /\ pending' = pending \ {file}
           /\ job_ids' = IF outcome = "ok" THEN Append(job_ids, Len(job_ids) + 1)
                         ELSE job_ids
    /\ submit_calls' = submit_calls + 1
    /\ UNCHANGED <<agent_limit, servers_file, inventory, agents, yaml_files, generated,
                   rpc, mpc, exit_code, laterVars>>

\* if not self.job_ids: return 1
\* else create_cancel_script and monitor_subjobs, which starts the monitors
SubmitDone ==
    /\ rpc = "submit"
    /\ pending = {}
    /\ IF job_ids = <<>>
       THEN /\ RunFails
            /\ UNCHANGED mpc
       ELSE /\ rpc' = "as_completed"
            /\ mpc' = [j \in Jobs |-> IF j \in SubJobs THEN "start" ELSE "unsubmitted"]
            /\ UNCHANGED exit_code
    /\ UNCHANGED <<startVars, job_ids, laterVars>>

(***************************************************************************)
(* safe_cancel_job, run by thread t.  A caller enters with EnterSafeCancel *)
(* and continues once scpc[t] is "out" again.                              *)
(***************************************************************************)
EnterSafeCancel(t, job_id, site) ==
    /\ scpc' = [scpc EXCEPT ![t] = "acquire"]
    /\ scjob' = [scjob EXCEPT ![t] = job_id]
    /\ sc_calls' = sc_calls \cup {<<site, job_id>>}

NoSafeCancel == UNCHANGED callVars

\* safe_cancel_job without the lock
LockAvailableAlways(lock) == TRUE

\* threading.Lock.acquire: blocks while another thread holds the lock
LockAvailable(lock) == lock = NoThread

\* safe_cancel_job returning without releasing the lock
SafeCancelReturnHolding(t, value) ==
    /\ job_state_lock' = job_state_lock
    /\ scpc' = [scpc EXCEPT ![t] = "out"]
    /\ sc_running' = [sc_running EXCEPT ![t] = FALSE]
    /\ true_returns' =
           IF value THEN [true_returns EXCEPT ![scjob[t]] = @ + 1] ELSE true_returns

\* leaving the with block and returning
SafeCancelReturn(t, value) ==
    /\ job_state_lock' = NoThread
    /\ scpc' = [scpc EXCEPT ![t] = "out"]
    /\ sc_running' = [sc_running EXCEPT ![t] = FALSE]
    /\ true_returns' =
           IF value THEN [true_returns EXCEPT ![scjob[t]] = @ + 1] ELSE true_returns

\* with self.job_state_lock: the membership test and is_job_running
SafeCancelCheckOn(t, outcomes) ==
    /\ scpc[t] = "acquire"
    /\ LockAvailable(job_state_lock)
    /\ IF scjob[t] \in cancelled_jobs
       THEN /\ SafeCancelReturn(t, FALSE)
            /\ UNCHANGED <<cancelled_jobs, status_failed>>
       ELSE \E outcome \in outcomes :
                /\ status_failed' = status_failed \cup StatusFailure(scjob[t], outcome)
                /\ IF ~IsJobRunning(outcome)
                   THEN /\ cancelled_jobs' = cancelled_jobs \cup {scjob[t]}
                        /\ SafeCancelReturn(t, FALSE)
                   ELSE /\ job_state_lock' = t
                        /\ scpc' = [scpc EXCEPT ![t] = "cancel"]
                        /\ sc_running' = [sc_running EXCEPT ![t] = IsJobRunning(outcome)]
                        /\ UNCHANGED <<cancelled_jobs, true_returns>>
    /\ UNCHANGED last_cancel
    /\ UNCHANGED <<cfgVars, scjob, sc_calls, token, procVars, monVars, result_queue,
                   orchVars, runVars>>

SafeCancelCheck(t) == SafeCancelCheckOn(t, StatusOutcomes)

\* safe_cancel_job forgetting cancelled_jobs.add after a successful cancel
AfterCancelUnmarked(r) ==
    IF r.raised = "none"
    THEN [mark |-> FALSE, value |-> TRUE]
    ELSE IF r.raised = "JobAlreadyCancelledError"
         THEN [mark |-> TRUE, value |-> FALSE]
         ELSE [mark |-> FALSE, value |-> FALSE]

\* safe_cancel_job marking the job cancelled after any failed cancel
AfterCancelMarksFailed(r) ==
    IF r.raised = "none"
    THEN [mark |-> TRUE, value |-> TRUE]
    ELSE [mark |-> TRUE, value |-> FALSE]

\* what safe_cancel_job does with the result of the cancel command:
\* whether it adds the job to cancelled_jobs, and what it returns
AfterCancel(r) ==
    IF r.raised = "none"
    THEN [mark |-> TRUE, value |-> TRUE]
    ELSE IF r.raised = "JobAlreadyCancelledError"
         THEN [mark |-> TRUE, value |-> FALSE]
         ELSE [mark |-> FALSE, value |-> FALSE]

\* self.call_testflinger(["cancel", job_id]) and the handlers around it
SafeCancelCommandWith(t, outcome) ==
    /\ scpc[t] = "cancel"
    /\ LET a == AfterCancel(CallTestflinger("cancel", outcome))
       IN /\ cancelled_jobs' =
                 IF a.mark THEN cancelled_jobs \cup {scjob[t]} ELSE cancelled_jobs
          /\ SafeCancelReturn(t, a.value)
          /\ last_cancel' =
                 [last_cancel EXCEPT ![scjob[t]] =
                     CancelResult(CallTestflinger("cancel", outcome))]
    /\ UNCHANGED status_failed
    /\ UNCHANGED <<startVars, job_ids, completion_threshold, scjob, sc_calls, token,
                   procVars, monVars, result_queue, orchVars, runVars>>

SafeCancelCommand(t) ==
    /\ \E outcome \in CancelOutcomes : SafeCancelCommandWith(t, outcome)
    /\ UNCHANGED service

(***************************************************************************)
(* The testflinger-cli poll process of job j: it writes its lines to the   *)
(* pipe one by one and may exit at any moment.                             *)
(***************************************************************************)
ProcessWrite(j) ==
    /\ process[j] = "alive"
    /\ nprod[j] < Len(PollOutput(j))
    /\ nprod' = [nprod EXCEPT ![j] = @ + 1]
    /\ UNCHANGED <<cfgVars, lockVars, callVars, scVars, token, process, monVars,
                   result_queue, orchVars, runVars>>

ProcessExit(j) ==
    /\ process[j] = "alive"
    /\ process' = [process EXCEPT ![j] = "dead"]
    /\ UNCHANGED <<cfgVars, lockVars, callVars, scVars, token, nprod, monVars,
                   result_queue, orchVars, runVars>>

\* process.poll() is None
Alive(p) == p = "alive"

\* process.kill() leaving the process running
KillFails(p) == p

\* process.kill(): no effect on a process that has exited
Kill(p) == IF p = "alive" THEN "dead" ELSE p

(***************************************************************************)
(* check_cancellation, the watcher thread of monitor j                     *)
(***************************************************************************)
\* while process.poll() is None:
WatcherPoll(j) ==
    /\ wpc[j] = "poll"
    /\ wpc' = [wpc EXCEPT ![j] = IF Alive(process[j]) THEN "token" ELSE "done"]
    /\ UNCHANGED <<cfgVars, lockVars, callVars, scVars, token, procVars, nread, mpc,
                   ret_val, sink, exit_path, result_queue, orchVars, runVars>>

\* if cancellation_token.is_cancelled(): process.kill(), safe_cancel_job, return
\* else time.sleep(0.5)
WatcherToken(j) ==
    /\ wpc[j] = "token"
    /\ IF token[j]
       THEN /\ process' = [process EXCEPT ![j] = Kill(@)]
            /\ EnterSafeCancel(Watch(j), j, "watcher")
            /\ wpc' = [wpc EXCEPT ![j] = "done"]
       ELSE /\ wpc' = [wpc EXCEPT ![j] = "poll"]
            /\ NoSafeCancel
            /\ UNCHANGED process
    /\ UNCHANGED <<cfgVars, lockVars, scVars, token, nprod, nread, mpc, ret_val, sink,
                   exit_path, result_queue, orchVars, runVars>>

(***************************************************************************)
(* monitor_subjob(j), a pool thread                                        *)
(***************************************************************************)
\* monitor_subjob letting the OSError propagate: it returns no record
AfterOSErrorRaise == "done"

\* where monitor_subjob goes on after except OSError
AfterOSError == "finally"

\* where monitor_subjob goes on after except (ValueError, IOError): break
AfterReadError == "finally"

\* open(output_file, "w"), subprocess.Popen, cancellation_checker.start()
MonitorStart(j) ==
    /\ mpc[j] = "start"
    /\ process' = [process EXCEPT ![j] = "alive"]
    /\ wpc' = [wpc EXCEPT ![j] = "poll"]
    /\ mpc' = [mpc EXCEPT ![j] = "loop"]
    /\ UNCHANGED <<cfgVars, lockVars, callVars, scVars, token, nprod, nread, ret_val,
                   sink, exit_path, result_queue, orchVars, runVars>>

\* open(output_file, "w") or subprocess.Popen raises OSError
MonitorStartFails(j) ==
    /\ mpc[j] = "start"
    /\ mpc' = [mpc EXCEPT ![j] = AfterOSError]
    /\ exit_path' = [exit_path EXCEPT ![j] = "oserror"]
    /\ UNCHANGED <<cfgVars, lockVars, callVars, scVars, token, procVars, nread, wpc,
                   ret_val, sink, result_queue, orchVars, runVars>>

\* the body of the read loop on the line `raw` that readline returned:
\* the new ret_val, what is written to the file, and whether the loop breaks
ReadLoopBody(rv, raw) ==
    LET output == Strip(raw)
        named == IF Contains(output, PhaseMarker)
                 THEN [rv EXCEPT !.name = ParseAgentName(output, rv.name)]
                 ELSE rv
    IN IF output = EmptyStr
       THEN [ret_val |-> rv, written |-> <<>>, brk |-> FALSE]
       ELSE IF Contains(output, ConnectMarker)
            THEN [ret_val |-> [named EXCEPT !.ip = ParseIp(output)],
                  written |-> <<output>>, brk |-> TRUE]
            ELSE [ret_val |-> named, written |-> <<output>>, brk |-> FALSE]

\* The records monitor_subjob(j) can hold in ret_val
RetVals(j) == [ip : {EmptyStr, Address(j)}, job_id : {j}, name : {EmptyStr, AgentName(j)}]

\* a function as an explicit table of its values
Tabulated(f) == f @@ <<>>

\* The loop body on each line k of each job j's stream, for each record rv
LoopBodies ==
    Tabulated([x \in UNION {{<<j, k, rv>> : k \in 1..Len(PollOutput(j)), rv \in RetVals(j)} :
                                j \in Jobs}
                  |-> ReadLoopBody(x[3], PollOutput(x[1])[x[2]])])

\* One turn of: while process.poll() is None: readline, loop body.
\* readline blocks until the process has written a line; once the process is
\* dead the loop ends, whatever is left in the pipe.
MonitorLoop(j) ==
    /\ mpc[j] = "loop"
    /\ \/ /\ Alive(process[j])
          /\ nread[j] < nprod[j]
          /\ LET b == LoopBodies[<<j, nread[j] + 1, ret_val[j]>>]
             IN /\ ret_val' = [ret_val EXCEPT ![j] = b.ret_val]
                /\ sink' = [sink EXCEPT ![j] = @ \o b.written]
                /\ mpc' = [mpc EXCEPT ![j] = IF b.brk THEN "finally" ELSE "loop"]
                /\ exit_path' = [exit_path EXCEPT ![j] = IF b.brk THEN "endpoint" ELSE @]
          /\ nread' = [nread EXCEPT ![j] = @ + 1]
       \/ /\ ~Alive(process[j])
          /\ mpc' = [mpc EXCEPT ![j] = "finally"]
          /\ exit_path' = [exit_path EXCEPT ![j] = "ended"]
          /\ UNCHANGED <<ret_val, sink, nread>>
    /\ UNCHANGED <<cfgVars, lockVars, callVars, scVars, token, procVars, wpc,
                   result_queue, orchVars, runVars>>

\* readline raises ValueError or IOError: break
MonitorReadFails(j) ==
    /\ mpc[j] = "loop"
    /\ Alive(process[j])
    /\ mpc' = [mpc EXCEPT ![j] = AfterReadError]
    /\ exit_path' = [exit_path EXCEPT ![j] = "readerror"]
    /\ UNCHANGED <<cfgVars, lockVars, callVars, scVars, token, procVars, nread, wpc,
                   ret_val, sink, result_queue, orchVars, runVars>>

\* monitor_subjob without the final cleanup
NeedsCleanupNever(j) == FALSE

\* if cancellation_token.is_cancelled() and subjob not in self.cancelled_jobs
NeedsCleanup(j) == token[j] /\ j \notin cancelled_jobs

\* finally: if process and process.poll() is None: process.kill()
\* then the final cleanup: safe_cancel_job if NeedsCleanup
MonitorFinally(j) ==
    /\ mpc[j] = "finally"
    /\ process' = [process EXCEPT ![j] = Kill(@)]
    /\ IF NeedsCleanup(j) THEN EnterSafeCancel(Mon(j), j, "cleanup") ELSE NoSafeCancel
    /\ mpc' = [mpc EXCEPT ![j] = "put"]
    /\ UNCHANGED <<cfgVars, lockVars, scVars, token, nprod, nread, wpc, ret_val, sink,
                   exit_path, result_queue, orchVars, runVars>>

\* result_queue.put(ret_val); return ret_val
MonitorPut(j) ==
    /\ mpc[j] = "put"
    /\ scpc[Mon(j)] = "out"
    /\ result_queue' = Append(result_queue, ret_val[j])
    /\ mpc' = [mpc EXCEPT ![j] = "done"]
    /\ UNCHANGED <<cfgVars, lockVars, callVars, scVars, token, procVars, nread, wpc,
                   ret_val, sink, exit_path, orchVars, runVars>>

(***************************************************************************)
(* monitor_subjobs, the main thread                                        *)
(***************************************************************************)
\* monitor_subjobs counting every completed future
CountResultAny(count, result) == count + 1

\* if result["ip"]: completed_count += 1
CountResult(count, result) == IF result.ip # EmptyStr THEN count + 1 ELSE count

\* monitor_subjobs stopping only once the tally has passed the threshold
ThresholdReachedLate(count, threshold) == count > threshold

\* if completed_count >= completion_threshold:
ThresholdReached(count, threshold) == count >= threshold

\* monitor_subjobs signalling only the monitors that are still running
TokensToCancelRunning(subjob) ==
    {r \in SubJobs : r # subjob /\ ~token[r] /\ mpc[r] # "done"}

\* for remaining_subjob, token in cancellation_tokens.items():
\*     if remaining_subjob != subjob and not token.is_cancelled(): token.cancel()
TokensToCancel(subjob) == {r \in SubJobs : r # subjob /\ ~token[r]}

\* one iteration of: for future in as_completed(...), on the finished monitor of j
ProcessCompleted(j) ==
    /\ rpc = "as_completed"
    /\ mpc[j] = "done"
    /\ j \notin completed_futures
    /\ completed_futures' = completed_futures \cup {j}
    /\ completed_count' = CountResult(completed_count, ret_val[j])
    /\ IF ThresholdReached(completed_count', completion_threshold)
       THEN /\ token' = [r \in Jobs |-> IF r \in TokensToCancel(j) THEN TRUE ELSE token[r]]
            /\ cancel_calls' =
                   [r \in Jobs |-> IF r \in TokensToCancel(j) THEN cancel_calls[r] + 1
                                   ELSE cancel_calls[r]]
            /\ trigger' = j
            /\ rpc' = "shutdown"
       ELSE /\ rpc' = IF completed_futures' = SubJobs THEN "shutdown" ELSE "as_completed"
            /\ UNCHANGED <<token, cancel_calls, trigger>>
    /\ UNCHANGED <<cfgVars, lockVars, callVars, scVars, procVars, monVars, result_queue,
                   runVars>>

\* time.sleep(2); leaving the with block waits for every monitor_subjob to
\* return; return completed_count
Shutdown ==
    /\ rpc = "shutdown"
    /\ \A j \in SubJobs : mpc[j] = "done"
    /\ rpc' = "monitored"
    /\ UNCHANGED <<cfgVars, lockVars, callVars, scVars, token, procVars, monVars,
                   result_queue, completed_count, completed_futures, trigger,
                   cancel_calls, runVars>>

(***************************************************************************)
(* run after monitor_subjobs, and verify_results                           *)
(***************************************************************************)
\* if completion_count < self.completion_threshold:
NotEnough(count, threshold) == count < threshold

\* the queue's content in order: while not empty(): results.append(get())
Drain(queue) == queue

\* the branch of run on completion_count: the failure sweep, or collecting
\* the results for verify_results
RunBranch ==
    /\ rpc = "monitored"
    /\ IF NotEnough(completed_count, completion_threshold)
       THEN /\ rpc' = "sweep"
            /\ UNCHANGED <<results, result_queue>>
       ELSE /\ rpc' = "verify"
            /\ results' = Drain(result_queue)
            /\ result_queue' = <<>>
    /\ idx' = 1
    /\ UNCHANGED <<cfgVars, lockVars, callVars, scVars, token, procVars, monVars,
                   completed_count, completed_futures, trigger, cancel_calls,
                   valid_results, exit_code, verify_status>>

\* the failure sweep sparing the jobs that produced an endpoint
SweepCancelsFailed(job_id) ==
    job_id \notin cancelled_jobs /\ ret_val[job_id].ip = EmptyStr

\* if job_id not in self.cancelled_jobs:
SweepCancels(job_id) == job_id \notin cancelled_jobs

\* for job_id in self.job_ids:
\*     if job_id not in self.cancelled_jobs: self.safe_cancel_job(job_id)
\* return 1
Sweep ==
    /\ rpc = "sweep"
    /\ scpc[Main] = "out"
    /\ IF idx > Len(job_ids)
       THEN /\ rpc' = "returned"
            /\ exit_code' = 1
            /\ NoSafeCancel
            /\ UNCHANGED idx
       ELSE /\ IF SweepCancels(job_ids[idx])
               THEN EnterSafeCancel(Main, job_ids[idx], "sweep")
               ELSE NoSafeCancel
            /\ idx' = idx + 1
            /\ UNCHANGED <<rpc, exit_code>>
    /\ UNCHANGED <<cfgVars, lockVars, scVars, token, procVars, monVars, result_queue,
                   completed_count, completed_futures, trigger, cancel_calls, results,
                   valid_results, verify_status>>

\* verify_results dropping a job that is not reserved without cancelling it
VerifyRecordSkips(result, outcome) ==
    LET r == CallTestflinger("status", outcome)
    IN IF IsTestflingerError(r) \/ "reserve" \notin r.output THEN "error" ELSE "valid"

\* verify_results on one record, given the outcome of its status command:
\* "error" (TestflingerError caught), "cancel" (no "reserve" in the output:
\* safe_cancel_job) or "valid" (appended to valid_results)
VerifyRecord(result, outcome) ==
    LET r == CallTestflinger("status", outcome)
    IN IF IsTestflingerError(r)
       THEN "error"
       ELSE IF "reserve" \notin r.output THEN "cancel" ELSE "valid"

\* what the status command of verify_results said
StatusSaid(outcome) ==
    IF outcome.exit # "ok" THEN "failed"
    ELSE IF "reserve" \in outcome.text THEN "reserve" ELSE "other"

\* for result in results: ...; return valid_results; run prints and returns 0
Verify ==
    /\ rpc = "verify"
    /\ scpc[Main] = "out"
    /\ IF idx > Len(results)
       THEN /\ rpc' = "returned"
            /\ exit_code' = 0
            /\ NoSafeCancel
            /\ UNCHANGED <<idx, valid_results, verify_status, status_failed>>
       ELSE /\ \E outcome \in StatusOutcomes :
                   LET v == VerifyRecord(results[idx], outcome)
                   IN /\ IF v = "cancel"
                         THEN EnterSafeCancel(Main, results[idx].job_id, "verify")
                         ELSE NoSafeCancel
                      /\ valid_results' =
                             IF v = "valid" THEN Append(valid_results, results[idx])
                             ELSE valid_results
                      /\ verify_status' =
                             [verify_status EXCEPT ![results[idx].job_id] =
                                 StatusSaid(outcome)]
                      /\ status_failed' =
                             status_failed \cup StatusFailure(results[idx].job_id, outcome)
            /\ idx' = idx + 1
            /\ UNCHANGED <<rpc, exit_code>>
    /\ UNCHANGED <<cfgVars, lockVars, sc_running, true_returns, last_cancel, token, procVars, monVars, result_queue,
                   completed_count, completed_futures, trigger, cancel_calls, results>>

(***************************************************************************)
(* Specifications                                                          *)
(***************************************************************************)
Next ==
    \/ \E t \in Threads : SafeCancelCheck(t)
    \/ \E t \in Threads : SafeCancelCommand(t)
    \/ \E j \in Jobs : ProcessWrite(j)
    \/ \E j \in Jobs : ProcessExit(j)
    \/ \E j \in Jobs : WatcherPoll(j)
    \/ \E j \in Jobs : WatcherToken(j)
    \/ \E j \in Jobs : MonitorStart(j)
    \/ \E j \in Jobs : MonitorStartFails(j)
    \/ \E j \in Jobs : MonitorLoop(j)
    \/ \E j \in Jobs : MonitorReadFails(j)
    \/ \E j \in Jobs : MonitorFinally(j)
    \/ \E j \in Jobs : MonitorPut(j)
    \/ \E j \in Jobs : ProcessCompleted(j)
    \/ Shutdown
    \/ RunBranch
    \/ Sweep
    \/ Verify

\* run from the call of monitor_subjobs on NumJobs jobs to its return
Spec == Init /\ [][Next]_vars

\* monitor_subjobs on one more job, up to its return, with poll processes
\* that run until they are killed and no I/O errors
InitMonitoring ==
    /\ InitWith(NumJobs + 1)
    /\ service = Unobserved
    /\ completion_threshold = NumJobs

NextMonitoring ==
    \/ \E t \in Threads : SafeCancelCheck(t)
    \/ \E t \in Threads : SafeCancelCommand(t)
    \/ \E j \in Jobs : ProcessWrite(j)
    \/ \E j \in Jobs : WatcherPoll(j)
    \/ \E j \in Jobs : WatcherToken(j)
    \/ \E j \in Jobs : MonitorStart(j)
    \/ \E j \in Jobs : MonitorLoop(j)
    \/ \E j \in Jobs : MonitorFinally(j)
    \/ \E j \in Jobs : MonitorPut(j)
    \/ \E j \in Jobs : ProcessCompleted(j)
    \/ Shutdown

SpecMonitoring == InitMonitoring /\ [][NextMonitoring]_vars

\* the steps of the pool thread that runs monitor_subjob(j); it blocks in
\* readline while the poll process is alive and has written nothing more
MonitorThread(j) ==
    \/ MonitorStart(j)
    \/ MonitorStartFails(j)
    \/ MonitorLoop(j)
    \/ MonitorFinally(j)
    \/ SafeCancelCheck(Mon(j))
    \/ SafeCancelCommand(Mon(j))
    \/ MonitorPut(j)

\* the steps of the watcher thread of monitor j
WatcherThread(j) ==
    \/ WatcherPoll(j)
    \/ WatcherToken(j)
    \/ SafeCancelCheck(Watch(j))
    \/ SafeCancelCommand(Watch(j))

\* the steps of the main thread in monitor_subjobs
MainThread ==
    \/ \E j \in Jobs : ProcessCompleted(j)
    \/ Shutdown

\* Every thread that can take a step eventually does, and a status or
\* cancel command that was started returns.  The poll process is not bound
\* to write or to exit, and an I/O error is not bound to happen.
Fairness ==
    /\ \A j \in 1..NumJobs : WF_vars(MonitorThread(j)) /\ WF_vars(WatcherThread(j))
    /\ WF_vars(MainThread)

\* monitor_subjobs on NumJobs jobs, up to its return
NextStopping ==
    \/ \E t \in Threads : SafeCancelCheck(t)
    \/ \E t \in Threads : SafeCancelCommand(t)
    \/ \E j \in Jobs : ProcessWrite(j)
    \/ \E j \in Jobs : ProcessExit(j)
    \/ \E j \in Jobs : WatcherPoll(j)
    \/ \E j \in Jobs : WatcherToken(j)
    \/ \E j \in Jobs : MonitorStart(j)
    \/ \E j \in Jobs : MonitorStartFails(j)
    \/ \E j \in Jobs : MonitorLoop(j)
    \/ \E j \in Jobs : MonitorReadFails(j)
    \/ \E j \in Jobs : MonitorFinally(j)
    \/ \E j \in Jobs : MonitorPut(j)
    \/ \E j \in Jobs : ProcessCompleted(j)
    \/ Shutdown

\* monitor_subjobs under fair scheduling
FairMonitoring == Init /\ [][NextStopping]_vars /\ Fairness

NextStart ==
    \/ ReadServers
    \/ SelectAgents
    \/ CheckAgents
    \/ PrepareFiles
    \/ SubmitJob
    \/ SubmitDone

\* run from its call to the call of monitor_subjobs
SpecStart == InitStart /\ [][NextStart]_vars

NextAgents ==
    \/ ReadServers
    \/ SelectAgents

\* get_available_agents on every inventory and server list
SpecAgents == InitStart /\ [][NextAgents]_vars

(***************************************************************************)
(* safe_cancel_job against a testflinger service that keeps the state of   *)
(* each job: "running" until the job completes or is cancelled.  The       *)
(* commands answer from that state, or fail.                               *)
(***************************************************************************)
\* testflinger-cli status: the state of the job, or a failure
StatusAnswers(state) ==
    {o \in StatusOutcomes :
        \/ o.exit # "ok"
        \/ state = "running" /\ o.text \in {{"reserve"}, {"provision"}}
        \/ state = "completed" /\ o.text = {"completed"}
        \/ state = "cancelled" /\ o.text = {"cancelled"}}

\* testflinger-cli cancel: cancels a running job, refuses a job that has
\* ended with the message call_testflinger looks for, or fails; the state
\* in which the command leaves the job
CancelAnswers(state) ==
    {a \in [outcome : CancelOutcomes, state : {"running", "completed", "cancelled"}] :
        \/ /\ state = "running"
           /\ a.outcome.exit = "ok"
           /\ a.state = "cancelled"
        \/ /\ state # "running"
           /\ a.outcome.exit = "failed"
           /\ AlreadyMsg \in a.outcome.text
           /\ a.state = state
        \/ /\ a.outcome.exit # "ok"
           /\ AlreadyMsg \notin a.outcome.text
           /\ a.state = state}

\* one submitted job, running at the service
InitService ==
    /\ InitWith(1)
    /\ service = [j \in Jobs |-> "running"]

\* the job ends at the service
ServiceCompletes(j) ==
    /\ j \in SubJobs
    /\ service[j] = "running"
    /\ service' = [service EXCEPT ![j] = "completed"]
    /\ UNCHANGED <<startVars, job_ids, completion_threshold, lockVars, callVars, scVars,
                   token, procVars, monVars, result_queue, orchVars, runVars>>

\* the sites that call safe_cancel_job and the thread of each: the watcher
\* and the final cleanup of monitor j on job j, the main thread on every job
\* in the failure sweep and in verify_results
CallSites ==
    {[site |-> "watcher", thread |-> Watch(j), job_id |-> j] : j \in Jobs}
        \cup {[site |-> "cleanup", thread |-> Mon(j), job_id |-> j] : j \in Jobs}
        \cup {[site |-> "sweep", thread |-> Main, job_id |-> j] : j \in Jobs}
        \cup {[site |-> "verify", thread |-> Main, job_id |-> j] : j \in Jobs}

\* a site calls safe_cancel_job
CallSafeCancel(c) ==
    /\ c.job_id \in SubJobs
    /\ scpc[c.thread] = "out"
    /\ <<c.site, c.job_id>> \notin sc_calls
    /\ EnterSafeCancel(c.thread, c.job_id, c.site)
    /\ UNCHANGED <<cfgVars, lockVars, scVars, token, procVars, monVars, result_queue,
                   orchVars, runVars>>

ServiceSafeCancelCheck(t) ==
    /\ scpc[t] = "acquire"
    /\ SafeCancelCheckOn(t, StatusAnswers(service[scjob[t]]))

ServiceSafeCancelCommand(t) ==
    /\ scpc[t] = "cancel"
    /\ \E a \in CancelAnswers(service[scjob[t]]) :
           /\ SafeCancelCommandWith(t, a.outcome)
           /\ service' = [service EXCEPT ![scjob[t]] = a.state]

NextService ==
    \/ \E j \in Jobs : ServiceCompletes(j)
    \/ \E c \in CallSites : CallSafeCancel(c)
    \/ \E t \in Threads : ServiceSafeCancelCheck(t)
    \/ \E t \in Threads : ServiceSafeCancelCommand(t)

\* the safe_cancel_job calls of run on a job that the service keeps track of
SpecService == InitService /\ [][NextService]_vars

(***************************************************************************)
(* Properties                                                              *)
(***************************************************************************)
\* every Result Record emitted so far: run moves the queue into results
Emitted == result_queue \o results

RecordsOf(j) == {i \in DOMAIN Emitted : Emitted[i].job_id = j}

\* monitor j has read a connect line from its poll stream
ConnectRead(j) ==
    \E i \in 1..nread[j] : Contains(Strip(PollOutput(j)[i]), ConnectMarker)

\* the poll process of j has written its phase line and then its connect line
StreamComplete(j) == nprod[j] = Len(PollOutput(j))

InValid(j) == \E i \in DOMAIN valid_results : valid_results[i].job_id = j

\* C1: over the whole run, at most one safe_cancel_job call on a job returns
\* True, whatever the status and cancel commands answer and however the
\* calls of the watcher, the final cleanup, the sweep and verify_results
\* interleave.
C1_TrueAtMostOnce == \A j \in Jobs : true_returns[j] <= 1

\* two call sites have called safe_cancel_job on j, every call has returned,
\* and one of them returned True
C1_Witness ==
    \E j \in SubJobs :
        /\ true_returns[j] = 1
        /\ Cardinality({c \in sc_calls : c[2] = j}) >= 2
        /\ \A t \in Threads : scpc[t] = "out"

\* C2: a thread issues the cancel command for a job only while it holds
\* job_state_lock, the job is not in cancelled_jobs and is_job_running has
\* just returned True under the same lock hold; so no cancel command is
\* issued for a job that is in cancelled_jobs.
C2_CancelGuarded ==
    [][\A t \in Threads :
          (scpc[t] = "cancel" /\ scpc'[t] = "out")
              => /\ job_state_lock = t
                 /\ scjob[t] \notin cancelled_jobs
                 /\ sc_running[t]]_vars

\* a cancel command for j succeeded and a later call on j waits for the lock
C2_Witness ==
    \E j \in SubJobs, t \in Threads :
        /\ j \in cancelled_jobs
        /\ true_returns[j] = 1
        /\ scpc[t] = "acquire"
        /\ scjob[t] = j

\* C3 as claimed: when the tally reaches the threshold while some monitor is
\* still running, monitor_subjobs sets the token of every job whose monitor
\* has not finished, and of no job whose monitor had finished with an
\* endpoint, nor of the job that reached the threshold.
C3_Original ==
    [][(/\ rpc = "as_completed"
        /\ trigger' # 0
        /\ \E r \in SubJobs : mpc[r] # "done")
           => \A r \in SubJobs :
                  /\ mpc[r] # "done" => token'[r]
                  /\ (mpc[r] = "done" /\ ret_val[r].ip # EmptyStr) => ~token'[r]
                  /\ r = trigger' => ~token'[r]]_vars

\* C4 as claimed, on the runs in which every monitor read an endpoint line:
\* if the first completion_threshold completions carried endpoints, a
\* successful run returns at most completion_threshold records.
C4_Original ==
    (/\ rpc = "returned"
     /\ exit_code = 0
     /\ Cardinality(completed_futures) = completion_threshold
     /\ \A j \in SubJobs : exit_path[j] = "endpoint")
        => Len(valid_results) <= completion_threshold

\* C5: when the first completion_threshold completions carry endpoints, the
\* token of each remaining job is set by exactly one cancel() call, and a
\* token that was set stays set.
C5_TokenSetOnce ==
    /\ \A r \in Jobs : cancel_calls[r] = IF token[r] THEN 1 ELSE 0
    /\ (trigger # 0 /\ Cardinality(completed_futures) = completion_threshold)
           => \A r \in SubJobs \ completed_futures : cancel_calls[r] = 1

\* the threshold was reached by the first completions and a remaining job
\* has its token set
C5_Witness ==
    /\ trigger # 0
    /\ Cardinality(completed_futures) = completion_threshold
    /\ \E r \in SubJobs \ completed_futures : token[r] /\ cancel_calls[r] = 1

\* C6: a monitor_subjob that has returned has put exactly one record of its
\* job on the queue, on every exit path, and one that has not returned has
\* put none; so once all monitors have returned there is one record per job.
C6_OneRecord ==
    \A j \in Jobs : Cardinality(RecordsOf(j)) = IF mpc[j] = "done" THEN 1 ELSE 0

\* all monitors have returned; one found its endpoint and one was killed by
\* its watcher
C6_Witness ==
    /\ \A j \in SubJobs : mpc[j] = "done"
    /\ Len(Emitted) = Cardinality(SubJobs)
    /\ \E j, k \in SubJobs :
           /\ exit_path[j] = "endpoint"
           /\ exit_path[k] = "ended"
           /\ <<"watcher", k>> \in sc_calls

\* C7: when all monitors have finished with the tally below the threshold,
\* run returns 1 with no result set and has called safe_cancel_job for every
\* job (none of them being in cancelled_jobs before its turn in the sweep),
\* those with an endpoint included.
C7_FailureSweep ==
    (rpc = "returned" /\ completed_count < completion_threshold)
        => /\ exit_code = 1
           /\ valid_results = <<>>
           /\ results = <<>>
           /\ \A j \in SubJobs : <<"sweep", j>> \in sc_calls

\* run has failed although a job had produced an endpoint
C7_Witness ==
    /\ rpc = "returned"
    /\ exit_code = 1
    /\ \E j \in SubJobs : ret_val[j].ip # EmptyStr /\ <<"sweep", j>> \in sc_calls

\* C8 as claimed: after the verification pass, a record is in the final
\* result set only if it has an endpoint and its status query showed the
\* reserved state; a record whose status shows another state is dropped and
\* passed to safe_cancel_job.
C8_Original ==
    (rpc = "returned" /\ exit_code = 0)
        => \A i \in DOMAIN results :
               LET j == results[i].job_id
               IN /\ InValid(j)
                       => results[i].ip # EmptyStr /\ verify_status[j] = "reserve"
                  /\ verify_status[j] = "other"
                       => ~InValid(j) /\ <<"verify", j>> \in sc_calls

\* C9 as claimed: a monitor whose poll stream produced the phase line of
\* agent X and then the connect line of address A, whose token was not set
\* and which met no I/O error, returns {job_id, name: X, ip: A} and has read
\* nothing after the connect line.
C9_Original ==
    \A j \in SubJobs :
        (/\ mpc[j] = "done"
         /\ StreamComplete(j)
         /\ ~token[j]
         /\ exit_path[j] \in {"endpoint", "ended"})
            => /\ ret_val[j] = [ip |-> Address(j), job_id |-> j, name |-> AgentName(j)]
               /\ ConnectRead(j)

\* C10: a monitor whose poll stream ended before it read a connect line has
\* an empty ip in its record, and such a record does not count: the tally
\* never exceeds the number of processed monitors that read a connect line.
C10_NoEndpointNoCount ==
    /\ \A j \in SubJobs :
           (mpc[j] \in {"put", "done"} /\ ~ConnectRead(j)) => ret_val[j].ip = EmptyStr
    /\ completed_count <= Cardinality({j \in completed_futures : ConnectRead(j)})

\* monitor_subjobs has processed the record of a job whose stream ended
\* without a connect line being read, and the tally is still zero
C10_Witness ==
    \E j \in completed_futures :
        /\ exit_path[j] = "ended"
        /\ ~ConnectRead(j)
        /\ completed_count = 0

\* the agents of the inventory that are waiting in a queue of the target servers
EligibleAgents ==
    {inventory.data[i].name :
        i \in {k \in DOMAIN inventory.data :
                  /\ inventory.data[k].state = "waiting"
                  /\ inventory.data[k].queues \cap servers_file # {}}}

\* the signed streak get_available_agents ranks the agent called name by
StreakOf(name) == Streak(inventory.data[name])

\* C11 as claimed: once the server list is read, run returns 1 only when
\* get_available_agents found no agent, when submit_jobs returned no job
\* id, or when the tally is below the threshold after all monitors finished;
\* so a run with an available agent is not aborted at the agent check.
C11_Original ==
    [][(rpc # "start" /\ exit_code # 1 /\ exit_code' = 1)
          => \/ rpc = "agents" /\ agents = <<>>
             \/ rpc = "submit" /\ job_ids = <<>>
             \/ /\ rpc = "sweep"
                /\ completed_count < completion_threshold
                /\ \A j \in SubJobs : mpc[j] = "done"]_vars

\* C12 as claimed: when the inventory fetch fails, get_available_agents
\* returns the empty list and run issues no submit command, generates no
\* file, starts no monitor and returns 1, whatever agent_limit is.
C12_Original ==
    inventory.status # "ok"
        => /\ agents = <<>>
           /\ submit_calls = 0
           /\ generated = {}
           /\ \A j \in Jobs : mpc[j] = "unsubmitted"
           /\ rpc = "returned" => exit_code = 1

\* C13: the list get_available_agents returns holds each agent that is
\* waiting in a target queue exactly once and no other agent, and no agent
\* with streak <= 0 comes before an agent with streak > 0, whatever order
\* the shuffle produces.
C13_RankedPermutation ==
    (rpc = "agents" /\ inventory.status = "ok")
        => /\ {agents[i] : i \in DOMAIN agents} = EligibleAgents
           /\ Len(agents) = Cardinality(EligibleAgents)
           /\ \A i, k \in DOMAIN agents :
                  (i < k) => ~(StreakOf(agents[i]) <= 0 /\ StreakOf(agents[k]) > 0)

\* get_available_agents has returned three agents, two with a positive
\* streak that the shuffle has put in the other order than the sort, then
\* one without a positive streak
C13_Witness ==
    /\ rpc = "agents"
    /\ inventory.status = "ok"
    /\ Len(agents) = 3
    /\ StreakOf(agents[1]) > 0
    /\ StreakOf(agents[2]) > StreakOf(agents[1])
    /\ StreakOf(agents[3]) <= 0

\* C14: a cancel command that fails otherwise than with the already
\* terminal error makes safe_cancel_job return False with cancelled_jobs
\* unchanged; one that fails with the already terminal error adds the job to
\* cancelled_jobs and returns False; and every call issues its cancel
\* command only after its own is_job_running said the job runs, also after
\* an earlier cancel command for the job has failed.
C14_CancelFailure ==
    [][\A t \in Threads :
          /\ (scpc[t] = "cancel" /\ scpc'[t] = "out")
                 => /\ last_cancel'[scjob[t]] = "failed"
                        => /\ cancelled_jobs' = cancelled_jobs
                           /\ true_returns' = true_returns
                    /\ last_cancel'[scjob[t]] = "already"
                        => /\ cancelled_jobs' = cancelled_jobs \cup {scjob[t]}
                           /\ true_returns' = true_returns
          /\ (scpc[t] = "acquire" /\ scpc'[t] = "cancel")
                 => /\ sc_running'[t]
                    /\ scjob[t] \notin cancelled_jobs]_vars

\* a cancel command for j has failed, j is not in cancelled_jobs, and a later
\* call on j has checked the status again and issues the command again
C14_Witness ==
    \E j \in SubJobs, t \in Threads :
        /\ last_cancel[j] = "failed"
        /\ j \notin cancelled_jobs
        /\ scpc[t] = "cancel"
        /\ scjob[t] = j

\* C15 as claimed: every job in cancelled_jobs has ended at the service
\* (cancelled or completed); no job that is still running there is in
\* cancelled_jobs, also when a status query fails.
C15_Original ==
    \A j \in cancelled_jobs : service[j] \in {"cancelled", "completed"}

\* C15 amended: a job in cancelled_jobs has ended at the service (cancelled
\* or completed) unless a status query on it has failed: is_job_running
\* takes a failed query for "not running", and the job is then added while
\* it may still run.
C15_TerminalOrStatusFailed ==
    \A j \in cancelled_jobs : service[j] \in {"cancelled", "completed"} \/ j \in status_failed

\* a cancel command for the job failed, then the status query of a later
\* call failed: the job is in cancelled_jobs and still runs at the service,
\* and a third call has returned at the membership test
C15_Witness ==
    \E j \in cancelled_jobs :
        /\ service[j] = "running"
        /\ j \in status_failed
        /\ last_cancel[j] = "failed"
        /\ Cardinality({c \in sc_calls : c[2] = j}) >= 3
        /\ \A t \in Threads : scpc[t] = "out"

\* C16 as claimed: neither the watcher nor the final cleanup of monitor j
\* issues a cancel command for job j when the record of j carries an
\* endpoint (ret_val[j] is final when either of them calls safe_cancel_job:
\* the process is dead or the read loop is over).
C16_Original ==
    [][\A j \in SubJobs : \A t \in {Watch(j), Mon(j)} :
          (scpc[t] = "cancel" /\ scpc'[t] = "out") => ret_val[j].ip = EmptyStr]_vars

\* C17: when monitor_subjob(j) passes its final cleanup check with the token
\* of j set, safe_cancel_job has been called for j by the watcher or is
\* called by the cleanup; and when it puts its record the poll process is no
\* longer running and its cleanup call has returned.  This holds on every
\* exit path of the try block.
C17_CleanupBeforeRecord ==
    [][\A j \in SubJobs :
          /\ (mpc[j] = "finally" /\ mpc'[j] = "put" /\ token[j])
                 => \E site \in {"watcher", "cleanup"} : <<site, j>> \in sc_calls'
          /\ (mpc[j] = "put" /\ mpc'[j] = "done")
                 => /\ ~Alive(process[j])
                    /\ scpc[Mon(j)] = "out"]_vars

\* the poll process of j ended by itself, the token of j was set before the
\* monitor reached its final cleanup check, the cleanup (not the watcher)
\* called safe_cancel_job, and the record has been put
C17_Witness ==
    \E j \in SubJobs :
        /\ mpc[j] = "done"
        /\ exit_path[j] = "ended"
        /\ <<"cleanup", j>> \in sc_calls
        /\ <<"watcher", j>> \notin sc_calls

\* C18: under fair scheduling, with commands that return: once the token of
\* j is set while its poll process is alive, the process is eventually dead
\* (killed by the watcher unless it was killed by the monitor's finally
\* block first) and the watcher calls safe_cancel_job only after the kill;
\* the monitor of a job whose token is set eventually puts its record and
\* returns; and once the threshold is reached monitor_subjobs eventually
\* leaves its pool and returns.
C18_EventuallyStopped ==
    /\ [](\A j \in Jobs : <<"watcher", j>> \in sc_calls => ~Alive(process[j]))
    /\ \A j \in 1..NumJobs : (token[j] /\ Alive(process[j])) ~> ~Alive(process[j])
    /\ \A j \in 1..NumJobs : token[j] ~> (mpc[j] = "done")
    /\ (trigger # 0)
           ~> /\ rpc = "monitored"
              /\ \A j \in SubJobs : mpc[j] = "done" /\ ~Alive(process[j])

\* the threshold was reached while the poll process of j was alive, the
\* watcher of j has killed it and called safe_cancel_job, and
\* monitor_subjobs has returned
C18_Witness ==
    /\ rpc = "monitored"
    /\ trigger # 0
    /\ \E j \in SubJobs :
           /\ token[j]
           /\ <<"watcher", j>> \in sc_calls
           /\ exit_path[j] = "ended"
           /\ mpc[j] = "done"

\* C19: the tally and the threshold decision belong to the as_completed loop
\* of monitor_subjobs alone: a token changes only in an iteration of that
\* loop, and only in the iteration that takes the tally from below the
\* threshold to the threshold; an iteration adds one to the tally when the
\* record it processes has a non-empty ip and nothing otherwise, and no other
\* step changes the tally; the tally monitor_subjobs returns is at most the
\* threshold.
C19_SingleEvaluationPoint ==
    [][/\ token' # token
           => /\ \E j \in SubJobs : ProcessCompleted(j)
              /\ completed_count < completion_threshold
              /\ completed_count' = completion_threshold
       /\ \A j \in SubJobs :
              (j \notin completed_futures /\ j \in completed_futures')
                  => completed_count' =
                         completed_count + (IF ret_val[j].ip # EmptyStr THEN 1 ELSE 0)
       /\ completed_futures' = completed_futures => completed_count' = completed_count
       /\ rpc' = "monitored" => completed_count' <= completion_threshold]_vars

\* monitor_subjobs has returned a tally equal to a threshold of two, and a
\* token was set in the iteration that took the tally to the threshold
C19_Witness ==
    /\ rpc = "monitored"
    /\ completion_threshold = 2
    /\ completed_count = 2
    /\ \E j \in SubJobs : token[j]

\* C20: when run has returned after the monitoring phase, no status command
\* failed during the run and no job's latest cancel command failed with a
\* generic failure, every submitted job is in the list verify_results
\* returned or in cancelled_jobs.
C20_ReportedOrMarked ==
    (/\ rpc = "returned"
     /\ status_failed = {}
     /\ \A j \in Jobs : last_cancel[j] # "failed")
        => \A j \in SubJobs : InValid(j) \/ j \in cancelled_jobs

\* run has returned 0 with no failed command: one job is in the verified
\* list, and another, which verify_results found not reserved, is in
\* cancelled_jobs only
C20_Witness ==
    /\ rpc = "returned"
    /\ exit_code = 0
    /\ status_failed = {}
    /\ \A j \in Jobs : last_cancel[j] # "failed"
    /\ \E j, k \in SubJobs :
           /\ InValid(j)
           /\ ~InValid(k)
           /\ k \in cancelled_jobs
           /\ <<"verify", k>> \in sc_calls

\* the threads inside the with block of safe_cancel_job at a state: a thread
\* is at the cancel command exactly while it holds job_state_lock (the
\* membership test and is_job_running are one step taken with the lock free)
InCriticalSection == {t \in Threads : scpc[t] = "cancel"}

\* C21: at most one thread is inside the with block of safe_cancel_job, so
\* at most one cancel command is in flight; a job is added to cancelled_jobs
\* only by a thread that returns from safe_cancel_job in that step, while no
\* other thread holds job_state_lock; cancelled_jobs never loses a job; and
\* a thread that waits for the lock never holds it itself: it can take the
\* lock, or the holder is another thread, at its cancel command, whose
\* return releases the lock.
C21_LockDiscipline ==
    /\ [](/\ Cardinality(InCriticalSection) <= 1
          /\ \A t \in Threads : (scpc[t] = "cancel") <=> (job_state_lock = t)
          /\ \A t \in Threads :
                 scpc[t] = "acquire"
                     => /\ job_state_lock # t
                        /\ \/ ENABLED SafeCancelCheck(t)
                           \/ \E u \in Threads \ {t} :
                                  /\ job_state_lock = u
                                  /\ ENABLED SafeCancelCommand(u))
    /\ [][/\ cancelled_jobs \subseteq cancelled_jobs'
          /\ cancelled_jobs' # cancelled_jobs
                 => \E t \in Threads :
                        /\ scpc[t] \in {"acquire", "cancel"}
                        /\ scpc'[t] = "out"
                        /\ job_state_lock \in {NoThread, t}
                        /\ job_state_lock' = NoThread
                        /\ cancelled_jobs' = cancelled_jobs \cup {scjob[t]}]_vars

\* a thread holds the lock at its cancel command while another thread waits
\* for the lock, and a job is already in cancelled_jobs
C21_Witness ==
    \E t, u \in Threads :
        /\ t # u
        /\ job_state_lock = t
        /\ scpc[t] = "cancel"
        /\ scpc[u] = "acquire"
        /\ cancelled_jobs # {}

\* the lines the poll process of j has written (none of them after its
\* connect line), as file.write would write them
ProducedLines(j) == [i \in 1..nprod[j] |-> Strip(PollOutput(j)[i])]

\* C22 as claimed: when monitor_subjob(j) has returned, its token was not
\* set and it met no I/O error, the output file of j holds every line the
\* poll process wrote, in the order written, whenever the process exited.
C22_Original ==
    \A j \in SubJobs :
        (/\ mpc[j] = "done"
         /\ ~token[j]
         /\ exit_path[j] \in {"endpoint", "ended"})
            => sink[j] = ProducedLines(j)

\* C23 as claimed: the signed streak get_available_agents ranks a returned
\* agent by is the count when the streak type of its entry is "pass", minus
\* the count when it is "fail", and 0 when the type is another one or the
\* streak fields are absent.
C23_Original ==
    (rpc = "agents" /\ inventory.status = "ok")
        => \A i \in DOMAIN agents :
               LET entry == inventory.data[agents[i]]
               IN StreakOf(agents[i]) =
                      IF entry.has_streak /\ entry.type = "pass" THEN entry.count
                      ELSE IF entry.has_streak /\ entry.type = "fail" THEN 0 - entry.count
                      ELSE 0

====
